---- MODULE Spec2Model ----
(***************************************************************************)
(* Model of the parallel fitting engine of DRE (src/DRE/core/dre_cpu.py):  *)
(* class Parallelize.  One orchestrator (fit_dir / fit_file in the main    *)
(* thread), one feeder thread (feed_workers), n_proc worker processes      *)
(* (cpu_worker), one collector thread (get_output), the bounded input      *)
(* queue, the unbounded output queue and the shared terminate event.       *)
(***************************************************************************)
EXTENDS Integers, Sequences, FiniteSets, Bags, TLC

\* ---------------------------------------------------------------- bounds
NFiles == 2      \* number of input files listed by fit_dir
MaxItems == 2    \* largest number of objects in one input archive
MaxProc == 2     \* largest n_proc given to Parallelize
MaxSize == 2     \* largest max_size (input_queue capacity) given to Parallelize
NSlices == 2     \* number of 2-D model images convolve maps over

STOP == 0        \* the 'STOP' sentinel; object names are 1..N

VARIABLES
  n_proc,        \* self.n_proc
  max_size,      \* capacity of self.input_queue
  file,          \* index i of the file fit_dir is at (0 before the loop)
  mpc,           \* position of the main thread in fit_dir / fit_file
  exit,          \* how the last fit_file call left: none/normal/skipped/aborted
  k,             \* loop index of start_processes / stop_processes
  names,         \* names = list(input_h5f.keys()) of the current file
  succ,          \* names whose chi_cube is not all NaN (deterministic kernel)
  slices_done,   \* model images the pool of convolve has convolved so far
  convolved,     \* file whose PSF model.convolved_models was computed for
  terminate,     \* self.terminate (mp.Event)
  input_queue,   \* self.input_queue contents, FIFO
  output_queue,  \* self.output_queue contents, FIFO
  in_unfinished, \* input_queue._unfinished_tasks
  out_unfinished,\* output_queue._unfinished_tasks
  fpc,           \* position of the feeder thread
  submitted,     \* local of feed_workers
  stops,         \* number of 'STOP' entries the feeder has put
  fed,           \* history: work items the feeder has put, in order
  wpc,           \* position of each worker process
  witem,         \* the work item a worker holds (0: none)
  cpc,           \* position of the collector thread
  completed,     \* local of get_output
  table,         \* Summary rows appended by the collector: bag of names
                 \* (the order of the rows is not modelled)
  archive,       \* datasets present in the output archive of this file
  saved,         \* number of table.save calls for this file
  saved_rows,    \* rows written by table.save for this file
  dequeued,      \* history: work items taken from input_queue in this job
  pushed,        \* history: results put on output_queue in this job
  acked,         \* history: input_queue.task_done calls in this job
  consumed_ok,   \* history: results with success = True the collector took
  late,          \* history: rows appended while terminate was set
  normal_done    \* history: fit_file calls that reached table.save

vars == <<n_proc, max_size, file, mpc, exit, k, names, succ, slices_done,
          convolved, terminate,
          input_queue, output_queue, in_unfinished, out_unfinished,
          fpc, submitted, stops, fed, wpc, witem, cpc, completed, table,
          archive, saved, saved_rows, dequeued, pushed, acked, consumed_ok,
          late, normal_done>>

init_vars == <<n_proc, max_size>>
main_vars == <<init_vars, file, mpc, exit, k, names, succ, slices_done,
               convolved, saved, saved_rows, normal_done>>
feed_vars == <<fpc, submitted, stops, fed>>
work_vars == <<wpc, witem, dequeued, pushed, acked>>
coll_vars == <<cpc, completed, table, archive, consumed_ok, late>>

Procs == 1..MaxProc
Workers == 1..n_proc

\* ------------------------------------------------------------- helpers
RECURSIVE Perms(_)
Perms(S) ==
  IF S = {} THEN {<<>>}
  ELSE UNION {{<<x>> \o p : p \in Perms(S \ {x})} : x \in S}

Range(s) == {s[i] : i \in 1..Len(s)}

Alive(w) == wpc[w] \in {"get", "fit", "ack"}
FeederAlive == fpc \in {"check", "put", "check2", "stop"}
CollectorAlive == cpc \in {"check", "get"}

\* the tuple cpu_worker puts on output_queue (name, success, ...)
Result(name) == [name |-> name, success |-> name \in succ]

\* ---------------------------------------------------------------- Init
Init ==
  /\ n_proc \in 1..MaxProc
  /\ max_size \in 1..MaxSize
  /\ file = 0 /\ mpc = "dir" /\ exit = "none" /\ k = 0
  /\ names = <<>> /\ succ = {} /\ slices_done = 0 /\ convolved = 0
  /\ terminate = FALSE
  /\ input_queue = <<>> /\ output_queue = <<>>
  /\ in_unfinished = 0 /\ out_unfinished = 0
  /\ fpc = "idle" /\ submitted = 0 /\ stops = 0 /\ fed = <<>>
  /\ wpc = [w \in Procs |-> "idle"] /\ witem = [w \in Procs |-> 0]
  /\ cpc = "idle" /\ completed = 0
  /\ table = EmptyBag /\ archive = {} /\ saved = 0 /\ saved_rows = EmptyBag
  /\ dequeued = 0 /\ pushed = 0 /\ acked = 0 /\ consumed_ok = 0 /\ late = 0
  /\ normal_done = 0

\* ------------------------------------------------- fit_dir / fit_file
\* fit_dir loop body up to the convolution: next sorted file, remove a
\* stale output archive, read its names, new Summary table.
fit_dir_next ==
  /\ mpc = "dir" /\ file < NFiles
  /\ file' = file + 1
  /\ \E n \in 0..MaxItems :
       /\ names' \in Perms(1..n)
       /\ succ' \in SUBSET (1..n)
  /\ mpc' = "convolve" /\ exit' = "none" /\ k' = 0
  /\ table' = EmptyBag /\ archive' = {} /\ saved' = 0 /\ saved_rows' = EmptyBag
  /\ fpc' = "idle" /\ submitted' = 0 /\ stops' = 0 /\ fed' = <<>>
  /\ slices_done' = 0
  /\ wpc' = [w \in Procs |-> "idle"] /\ witem' = [w \in Procs |-> 0]
  /\ cpc' = "idle" /\ completed' = 0
  /\ dequeued' = 0 /\ pushed' = 0 /\ acked' = 0
  /\ consumed_ok' = 0 /\ late' = 0
  /\ UNCHANGED <<init_vars, normal_done, convolved, terminate, input_queue,
                 output_queue, in_unfinished, out_unfinished>>

\* fit_dir: the for loop is exhausted
fit_dir_end ==
  /\ mpc = "dir" /\ file = NFiles
  /\ mpc' = "finished"
  /\ UNCHANGED <<init_vars, slices_done, normal_done,
                 file, exit, k, names, succ, convolved, saved,
                 saved_rows,
                 terminate, input_queue, output_queue, in_unfinished,
                 out_unfinished, feed_vars, work_vars, coll_vars>>

\* variant: the loop of fit_dir without the break on terminate
fit_dir_check_nobreak ==
  /\ mpc = "returned"
  /\ mpc' = "dir"
  /\ UNCHANGED <<init_vars, slices_done, normal_done,
                 file, exit, k, names, succ, convolved, saved,
                 saved_rows,
                 terminate, input_queue, output_queue, in_unfinished,
                 out_unfinished, feed_vars, work_vars, coll_vars>>

\* fit_dir after fit_file returned: break when terminate is set
fit_dir_check ==
  /\ mpc = "returned"
  /\ mpc' = IF terminate THEN "finished" ELSE "dir"
  /\ UNCHANGED <<init_vars, slices_done, normal_done,
                 file, exit, k, names, succ, convolved, saved,
                 saved_rows,
                 terminate, input_queue, output_queue, in_unfinished,
                 out_unfinished, feed_vars, work_vars, coll_vars>>

\* pool.map(convolve, ...): one more model image has been convolved
convolve_slice ==
  /\ mpc = "convolve"
  /\ slices_done < NSlices
  /\ slices_done' = slices_done + 1
  /\ UNCHANGED <<init_vars, normal_done,
                 file, mpc, exit, k, names, succ, convolved, saved, saved_rows,
                 terminate, input_queue, output_queue, in_unfinished,
                 out_unfinished, feed_vars, work_vars, coll_vars>>

\* variant: the map does not wait for its results (map_async)
convolve_ok_async ==
  /\ mpc = "convolve"
  /\ convolved' = file
  /\ mpc' = "start_feed"
  /\ UNCHANGED <<init_vars, slices_done, normal_done,
                 file, exit, k, names, succ, saved, saved_rows,
                 terminate, input_queue, output_queue, in_unfinished,
                 out_unfinished, feed_vars, work_vars, coll_vars>>

\* pool.map has returned every image: convolved_models is published and
\* model.convolve(psf) returns
convolve_ok ==
  /\ mpc = "convolve"
  /\ slices_done = NSlices
  /\ convolved' = file
  /\ mpc' = "start_feed"
  /\ UNCHANGED <<init_vars, slices_done, normal_done,
                 file, exit, k, names, succ, saved, saved_rows,
                 terminate, input_queue, output_queue, in_unfinished,
                 out_unfinished, feed_vars, work_vars, coll_vars>>

\* variant: the missing PSF handled as an abort of the run
convolve_missing_abort ==
  /\ mpc = "convolve"
  /\ slices_done = 0
  /\ terminate' = TRUE
  /\ mpc' = "returned" /\ exit' = "skipped"
  /\ UNCHANGED <<init_vars, slices_done, normal_done,
                 file, k, names, succ, convolved, saved,
                 saved_rows,
                 input_queue, output_queue, in_unfinished,
                 out_unfinished, feed_vars, work_vars, coll_vars>>

\* get_psf(psf_file) raises FileNotFoundError before the pool is created:
\* fit_file returns
convolve_missing ==
  /\ mpc = "convolve"
  /\ slices_done = 0
  /\ mpc' = "returned" /\ exit' = "skipped"
  /\ UNCHANGED <<init_vars, slices_done, normal_done,
                 file, k, names, succ, convolved, saved,
                 saved_rows,
                 terminate, input_queue, output_queue, in_unfinished,
                 out_unfinished, feed_vars, work_vars, coll_vars>>

\* KeyboardInterrupt during convolve is not caught by fit_file or fit_dir
convolve_interrupt ==
  /\ mpc = "convolve"
  /\ mpc' = "killed"
  /\ UNCHANGED <<init_vars, slices_done, normal_done,
                 file, exit, k, names, succ, convolved, saved,
                 saved_rows,
                 terminate, input_queue, output_queue, in_unfinished,
                 out_unfinished, feed_vars, work_vars, coll_vars>>

\* ---------------------------------------------------- start_processes
start_feed_thread ==
  /\ mpc = "start_feed"
  /\ fpc' = "check"
  /\ mpc' = "start_out"
  /\ UNCHANGED <<init_vars, slices_done, normal_done,
                 file, exit, k, names, succ, convolved, saved,
                 saved_rows,
                 terminate, input_queue, output_queue, in_unfinished,
                 out_unfinished, submitted, stops, fed, work_vars,
                 coll_vars>>

start_output_thread ==
  /\ mpc = "start_out"
  /\ cpc' = "check"
  /\ mpc' = "start_proc" /\ k' = 1
  /\ UNCHANGED <<init_vars, slices_done, normal_done,
                 file, exit, names, succ, convolved, saved,
                 saved_rows,
                 terminate, input_queue, output_queue, in_unfinished,
                 out_unfinished, feed_vars, work_vars, completed, table,
                 archive, consumed_ok, late>>

start_process ==
  /\ mpc = "start_proc"
  /\ wpc' = [wpc EXCEPT ![k] = "get"]
  /\ IF k = n_proc THEN mpc' = "join_feed" /\ k' = 0
                   ELSE mpc' = mpc /\ k' = k + 1
  /\ UNCHANGED <<init_vars, slices_done, normal_done,
                 file, exit, names, succ, convolved, saved,
                 saved_rows,
                 terminate, input_queue, output_queue, in_unfinished,
                 out_unfinished, feed_vars, witem, dequeued, pushed, acked,
                 coll_vars>>

\* ----------------------------------------------------- stop_processes
join_feed_thread ==
  /\ mpc = "join_feed"
  /\ ~FeederAlive
  /\ mpc' = "join_proc" /\ k' = 1
  /\ UNCHANGED <<init_vars, slices_done, normal_done,
                 file, exit, names, succ, convolved, saved,
                 saved_rows,
                 terminate, input_queue, output_queue, in_unfinished,
                 out_unfinished, feed_vars, work_vars, coll_vars>>

join_process ==
  /\ mpc = "join_proc"
  /\ ~Alive(k)
  /\ IF k = n_proc THEN mpc' = "join_out" /\ k' = 0
                   ELSE mpc' = mpc /\ k' = k + 1
  /\ UNCHANGED <<init_vars, slices_done, normal_done,
                 file, exit, names, succ, convolved, saved,
                 saved_rows,
                 terminate, input_queue, output_queue, in_unfinished,
                 out_unfinished, feed_vars, work_vars, coll_vars>>

\* variant: stop_processes does not join the output thread
join_output_thread_nowait ==
  /\ mpc = "join_out"
  /\ mpc' = "save"
  /\ UNCHANGED <<init_vars, slices_done, normal_done,
                 file, exit, k, names, succ, convolved, saved,
                 saved_rows,
                 terminate, input_queue, output_queue, in_unfinished,
                 out_unfinished, feed_vars, work_vars, coll_vars>>

\* self.output_thread.join()
join_output_thread ==
  /\ mpc = "join_out"
  /\ ~CollectorAlive
  /\ mpc' = "save"
  /\ UNCHANGED <<init_vars, slices_done, normal_done,
                 file, exit, k, names, succ, convolved, saved,
                 saved_rows,
                 terminate, input_queue, output_queue, in_unfinished,
                 out_unfinished, feed_vars, work_vars, coll_vars>>

\* table.save(cats_dir), then fit_file returns
table_save ==
  /\ mpc = "save"
  /\ saved' = saved + 1 /\ saved_rows' = table
  /\ mpc' = "returned" /\ exit' = "normal"
  /\ normal_done' = normal_done + 1
  /\ UNCHANGED <<init_vars, slices_done,
                 file, k, names, succ, convolved,
                 terminate, input_queue, output_queue, in_unfinished,
                 out_unfinished, feed_vars, work_vars, coll_vars>>

\* self.abort(): terminate.set(); cancel_join_thread on both queues
abort ==
  /\ terminate' = TRUE
  /\ UNCHANGED <<input_queue, output_queue, in_unfinished, out_unfinished>>

\* KeyboardInterrupt in the main thread inside the try of fit_file
fit_file_interrupt ==
  /\ mpc \in {"start_feed", "start_out", "start_proc", "join_feed",
              "join_proc", "join_out", "save"}
  /\ abort
  /\ mpc' = "returned" /\ exit' = "aborted" /\ k' = 0
  /\ UNCHANGED <<init_vars, slices_done, normal_done,
                 file, names, succ, convolved, saved,
                 saved_rows,
                 feed_vars, work_vars, coll_vars>>

\* ------------------------------------------------------- feed_workers
\* loop condition of the submission loop
feed_continue == submitted < Len(names) /\ ~terminate

feed_workers_check ==
  /\ fpc = "check"
  /\ fpc' = IF feed_continue THEN "put" ELSE "check2"
  /\ UNCHANGED <<main_vars, terminate, input_queue, output_queue,
                 in_unfinished, out_unfinished, submitted, stops, fed,
                 work_vars, coll_vars>>

\* input_queue.put(item, timeout=2) finds room
feed_workers_put ==
  /\ fpc = "put"
  /\ Len(input_queue) < max_size
  /\ input_queue' = Append(input_queue, names[submitted + 1])
  /\ in_unfinished' = in_unfinished + 1
  /\ submitted' = submitted + 1
  /\ fed' = Append(fed, names[submitted + 1])
  /\ fpc' = "check"
  /\ UNCHANGED <<main_vars, terminate, output_queue, out_unfinished, stops,
                 work_vars, coll_vars>>

\* variant: QueueFull moves on to the next item
feed_workers_full_drop ==
  /\ fpc = "put"
  /\ Len(input_queue) >= max_size
  /\ submitted' = submitted + 1
  /\ fpc' = "check"
  /\ UNCHANGED <<main_vars, terminate, input_queue, output_queue,
                 in_unfinished, out_unfinished, stops, fed,
                 work_vars, coll_vars>>

\* input_queue.put(item, timeout=2) raises QueueFull: retry the same item
feed_workers_full ==
  /\ fpc = "put"
  /\ Len(input_queue) >= max_size
  /\ fpc' = "check"
  /\ UNCHANGED <<main_vars, terminate, input_queue, output_queue,
                 in_unfinished, out_unfinished, submitted, stops, fed,
                 work_vars, coll_vars>>

\* variant: the sentinels are put without looking at terminate
feed_workers_check2_always ==
  /\ fpc = "check2"
  /\ fpc' = "stop"
  /\ UNCHANGED <<main_vars, terminate, input_queue, output_queue,
                 in_unfinished, out_unfinished, submitted, stops, fed,
                 work_vars, coll_vars>>

\* "if not self.terminate.is_set()" before the sentinels
feed_workers_check2 ==
  /\ fpc = "check2"
  /\ fpc' = IF ~terminate THEN "stop" ELSE "done"
  /\ UNCHANGED <<main_vars, terminate, input_queue, output_queue,
                 in_unfinished, out_unfinished, submitted, stops, fed,
                 work_vars, coll_vars>>

\* variant: a single 'STOP' is put instead of one per worker
feed_workers_stop_once ==
  /\ fpc = "stop"
  /\ Len(input_queue) < max_size
  /\ input_queue' = Append(input_queue, STOP)
  /\ in_unfinished' = in_unfinished + 1
  /\ stops' = stops + 1
  /\ fpc' = "done"
  /\ UNCHANGED <<main_vars, terminate, output_queue, out_unfinished,
                 submitted, fed, work_vars, coll_vars>>

\* variant: one 'STOP' more than there are workers
feed_workers_stop_extra ==
  /\ fpc = "stop"
  /\ Len(input_queue) < max_size
  /\ input_queue' = Append(input_queue, STOP)
  /\ in_unfinished' = in_unfinished + 1
  /\ stops' = stops + 1
  /\ fpc' = IF stops + 1 = n_proc + 1 THEN "done" ELSE "stop"
  /\ UNCHANGED <<main_vars, terminate, output_queue, out_unfinished,
                 submitted, fed, work_vars, coll_vars>>

\* input_queue.put('STOP'): blocking put without timeout, n_proc times
feed_workers_stop ==
  /\ fpc = "stop"
  /\ Len(input_queue) < max_size
  /\ input_queue' = Append(input_queue, STOP)
  /\ in_unfinished' = in_unfinished + 1
  /\ stops' = stops + 1
  /\ fpc' = IF stops + 1 = n_proc THEN "done" ELSE "stop"
  /\ UNCHANGED <<main_vars, terminate, output_queue, out_unfinished,
                 submitted, fed, work_vars, coll_vars>>

\* --------------------------------------------------------- cpu_worker
\* variant: the worker calls task_done for the 'STOP' it has taken
cpu_worker_get_ackstop(w) ==
  /\ wpc[w] = "get"
  /\ input_queue # <<>>
  /\ input_queue' = Tail(input_queue)
  /\ IF Head(input_queue) = STOP
       THEN /\ wpc' = [wpc EXCEPT ![w] = "stopped"]
            /\ in_unfinished' = in_unfinished - 1
            /\ UNCHANGED <<witem, dequeued>>
       ELSE /\ wpc' = [wpc EXCEPT ![w] = "fit"]
            /\ witem' = [witem EXCEPT ![w] = Head(input_queue)]
            /\ dequeued' = dequeued + 1
            /\ UNCHANGED in_unfinished
  /\ UNCHANGED <<main_vars, terminate, output_queue,
                 out_unfinished, feed_vars, pushed, acked, coll_vars>>

\* variant: get returns the head entry without removing it from the queue
cpu_worker_get_peek(w) ==
  /\ wpc[w] = "get"
  /\ input_queue # <<>>
  /\ IF Head(input_queue) = STOP
       THEN /\ wpc' = [wpc EXCEPT ![w] = "stopped"]
            /\ input_queue' = Tail(input_queue)
            /\ UNCHANGED <<witem, dequeued>>
       ELSE /\ wpc' = [wpc EXCEPT ![w] = "fit"]
            /\ input_queue' = input_queue
            /\ witem' = [witem EXCEPT ![w] = Head(input_queue)]
            /\ dequeued' = dequeued + 1
  /\ UNCHANGED <<main_vars, terminate, output_queue, in_unfinished,
                 out_unfinished, feed_vars, pushed, acked, coll_vars>>

\* input_queue.get(): blocking, no timeout; 'STOP' ends the iteration
cpu_worker_get(w) ==
  /\ wpc[w] = "get"
  /\ input_queue # <<>>
  /\ input_queue' = Tail(input_queue)
  /\ IF Head(input_queue) = STOP
       THEN /\ wpc' = [wpc EXCEPT ![w] = "stopped"]
            /\ UNCHANGED <<witem, dequeued>>
       ELSE /\ wpc' = [wpc EXCEPT ![w] = "fit"]
            /\ witem' = [witem EXCEPT ![w] = Head(input_queue)]
            /\ dequeued' = dequeued + 1
  /\ UNCHANGED <<main_vars, terminate, output_queue, in_unfinished,
                 out_unfinished, feed_vars, pushed, acked, coll_vars>>

\* variant: task_done placed inside "if success", skipped for a failed fit
cpu_worker_fit_noack(w) ==
  /\ wpc[w] = "fit"
  /\ output_queue' = Append(output_queue, Result(witem[w]))
  /\ out_unfinished' = out_unfinished + 1
  /\ pushed' = pushed + 1
  /\ IF witem[w] \in succ
       THEN wpc' = [wpc EXCEPT ![w] = "ack"] /\ witem' = witem
       ELSE wpc' = [wpc EXCEPT ![w] = "get"] /\ witem' = [witem EXCEPT ![w] = 0]
  /\ UNCHANGED <<main_vars, terminate, input_queue, in_unfinished,
                 feed_vars, dequeued, acked, coll_vars>>

\* dre_fit, success, get_parameters, output_queue.put(result)
cpu_worker_fit(w) ==
  /\ wpc[w] = "fit"
  /\ output_queue' = Append(output_queue, Result(witem[w]))
  /\ out_unfinished' = out_unfinished + 1
  /\ pushed' = pushed + 1
  /\ wpc' = [wpc EXCEPT ![w] = "ack"]
  /\ UNCHANGED <<main_vars, terminate, input_queue, in_unfinished,
                 feed_vars, witem, dequeued, acked, coll_vars>>

\* input_queue.task_done()
cpu_worker_task_done(w) ==
  /\ wpc[w] = "ack"
  /\ in_unfinished' = in_unfinished - 1
  /\ acked' = acked + 1
  /\ witem' = [witem EXCEPT ![w] = 0]
  /\ wpc' = [wpc EXCEPT ![w] = "get"]
  /\ UNCHANGED <<main_vars, terminate, input_queue, output_queue,
                 out_unfinished, feed_vars, dequeued, pushed, coll_vars>>

\* variant: the KeyboardInterrupt is swallowed without terminate.set()
cpu_worker_interrupt_noflag(w) ==
  /\ Alive(w)
  /\ terminate' = terminate
  /\ wpc' = [wpc EXCEPT ![w] = "interrupted"]
  /\ witem' = [witem EXCEPT ![w] = 0]
  /\ UNCHANGED <<main_vars, input_queue, output_queue, in_unfinished,
                 out_unfinished, feed_vars, dequeued, pushed, acked,
                 coll_vars>>

\* except KeyboardInterrupt: terminate.set(); the worker leaves
cpu_worker_interrupt(w) ==
  /\ Alive(w)
  /\ terminate' = TRUE
  /\ wpc' = [wpc EXCEPT ![w] = "interrupted"]
  /\ witem' = [witem EXCEPT ![w] = 0]
  /\ UNCHANGED <<main_vars, input_queue, output_queue, in_unfinished,
                 out_unfinished, feed_vars, dequeued, pushed, acked,
                 coll_vars>>

\* any other exception raised by the fit kernel: the process dies
cpu_worker_crash(w) ==
  /\ wpc[w] = "fit"
  /\ wpc' = [wpc EXCEPT ![w] = "crashed"]
  /\ witem' = [witem EXCEPT ![w] = 0]
  /\ UNCHANGED <<main_vars, terminate, input_queue, output_queue,
                 in_unfinished, out_unfinished, feed_vars, dequeued,
                 pushed, acked, coll_vars>>

\* --------------------------------------------------------- get_output
\* variant: the collector stops one result early
get_continue_short == completed + 1 < Len(names) /\ ~terminate

\* variant: the collector does not look at terminate
get_continue_noflag == completed < Len(names)

\* loop condition of the collector (n_tasks = len(names))
get_continue == completed < Len(names) /\ ~terminate

\* variant: the row is appended without looking at success
append_row_always(r) == table (+) SetToBag({r.name})

\* "if success: table.append(params)"
append_row(r) == IF r.success THEN table (+) SetToBag({r.name}) ELSE table

\* "if success: output_h5f.create_dataset(name, ...)"
create_dataset(r) == IF r.success THEN archive \cup {r.name} ELSE archive

get_output_check ==
  /\ cpc = "check"
  /\ cpc' = IF get_continue THEN "get" ELSE "done"
  /\ UNCHANGED <<main_vars, terminate, input_queue, output_queue,
                 in_unfinished, out_unfinished, feed_vars, work_vars,
                 completed, table, archive, consumed_ok, late>>

\* output_queue.get(timeout=2) returns a result
get_output_get ==
  /\ cpc = "get"
  /\ output_queue # <<>>
  /\ output_queue' = Tail(output_queue)
  /\ table' = append_row(Head(output_queue))
  /\ archive' = create_dataset(Head(output_queue))
  /\ out_unfinished' = out_unfinished - 1
  /\ completed' = completed + 1
  /\ consumed_ok' = IF Head(output_queue).success THEN consumed_ok + 1
                                                    ELSE consumed_ok
  /\ late' = IF terminate /\ Head(output_queue).success THEN late + 1
                                                         ELSE late
  /\ cpc' = "check"
  /\ UNCHANGED <<main_vars, terminate, input_queue, in_unfinished,
                 feed_vars, work_vars>>

\* variant: QueueEmpty ends the collector instead of being retried
get_output_empty_break ==
  /\ cpc = "get"
  /\ output_queue = <<>>
  /\ cpc' = "done"
  /\ UNCHANGED <<main_vars, terminate, input_queue, output_queue,
                 in_unfinished, out_unfinished, feed_vars, work_vars,
                 completed, table, archive, consumed_ok, late>>

\* output_queue.get(timeout=2) raises QueueEmpty
get_output_empty ==
  /\ cpc = "get"
  /\ output_queue = <<>>
  /\ cpc' = "check"
  /\ UNCHANGED <<main_vars, terminate, input_queue, output_queue,
                 in_unfinished, out_unfinished, feed_vars, work_vars,
                 completed, table, archive, consumed_ok, late>>

\* ------------------------------------------------------ specification
Main ==
  \/ fit_dir_next \/ fit_dir_end \/ fit_dir_check
  \/ convolve_slice \/ convolve_ok \/ convolve_missing
  \/ start_feed_thread \/ start_output_thread \/ start_process
  \/ join_feed_thread \/ join_process \/ join_output_thread
  \/ table_save

Feeder ==
  \/ feed_workers_check \/ feed_workers_put \/ feed_workers_full
  \/ feed_workers_check2 \/ feed_workers_stop

Worker(w) ==
  \/ cpu_worker_get(w) \/ cpu_worker_fit(w) \/ cpu_worker_task_done(w)

Collector ==
  \/ get_output_check \/ get_output_get \/ get_output_empty

Next ==
  \/ fit_dir_next \/ fit_dir_end \/ fit_dir_check
  \/ convolve_slice \/ convolve_ok \/ convolve_missing \/ convolve_interrupt
  \/ start_feed_thread \/ start_output_thread \/ start_process
  \/ join_feed_thread \/ join_process \/ join_output_thread
  \/ table_save \/ fit_file_interrupt
  \/ feed_workers_check \/ feed_workers_put \/ feed_workers_full
  \/ feed_workers_check2 \/ feed_workers_stop
  \/ \E w \in Workers : cpu_worker_get(w)
  \/ \E w \in Workers : cpu_worker_fit(w)
  \/ \E w \in Workers : cpu_worker_task_done(w)
  \/ \E w \in Workers : cpu_worker_interrupt(w)
  \/ \E w \in Workers : cpu_worker_crash(w)
  \/ get_output_check \/ get_output_get \/ get_output_empty

Spec == Init /\ [][Next]_vars

\* The scheduler runs every thread and process that can take a step;
\* interrupts and crashes are events of the environment and are not forced.
FairSpec ==
  /\ Spec
  /\ WF_vars(Main)
  /\ WF_vars(Feeder)
  /\ WF_vars(Collector)
  /\ \A w \in Procs : WF_vars(w \in Workers /\ Worker(w))

Crashed == \E w \in Procs : wpc[w] = "crashed"
NoneAlive == ~FeederAlive /\ ~CollectorAlive /\ \A w \in Procs : ~Alive(w)
\* ------------------------------------------------------------ claims

\* C1: once terminate is set, the feeder, every worker process and the
\* collector eventually all terminate (nothing stays blocked on a queue).
C1_CancellationLiveness == terminate ~> NoneAlive

\* C2: when fit_file leaves through its KeyboardInterrupt branch, terminate
\* is set, feeder, workers and collector have been joined and the summary
\* table with the rows collected so far has been saved.
C2_PersistOnAbort ==
  (mpc = "returned" /\ exit = "aborted")
     => (terminate /\ NoneAlive /\ saved = 1 /\ saved_rows = table)

\* C3: the summary table and the output archive only ever hold names whose
\* fit succeeded, and each result the collector consumes is acknowledged and
\* counted, and adds a row and an archive entry exactly when its success
\* flag is true.
C3_FailedFitsLeaveNoTrace ==
  /\ [](BagToSet(table) \subseteq succ /\ archive \subseteq succ)
  /\ [][completed' = completed + 1 =>
          LET r == Head(output_queue) IN
            /\ out_unfinished' = out_unfinished - 1
            /\ r.success <=> r.name \in succ
            /\ r.success => /\ table' = table (+) SetToBag({r.name})
                            /\ archive' = archive \cup {r.name}
            /\ ~r.success => table' = table /\ archive' = archive]_vars

C3_Witness ==
  cpc = "done" /\ completed = 2 /\ BagCardinality(table) = 1 /\ archive # {}

\* C4: when fit_file returns normally (no cancellation, no crash) every
\* name has been submitted and the number of task_done calls on the input
\* queue equals the number of submitted work items.
C4_InputAcks ==
  (mpc = "returned" /\ exit = "normal" /\ ~terminate /\ ~Crashed)
     => (submitted = Len(names) /\ acked = submitted)

C4_Witness ==
  mpc = "returned" /\ exit = "normal" /\ ~terminate /\ acked = 2 /\ n_proc = 2

\* C5: the collector never consumes more than N results, acknowledges each
\* one it consumes, and when it exits without cancellation it has consumed
\* exactly N and the table has one row per consumed successful result.
C5_CollectorCompleteness ==
  /\ completed <= Len(names)
  /\ out_unfinished = Len(output_queue)
  /\ (cpc = "done" /\ ~terminate)
        => (completed = Len(names) /\ BagCardinality(table) = consumed_ok)

C5_Witness ==
  cpc = "done" /\ ~terminate /\ completed = 2 /\ consumed_ok = 1

\* C6: without cancellation, the ids in the final (saved) summary table are
\* exactly the submitted names whose fit succeeds, each once, whatever the
\* worker count, the order of names and the interleaving.
C6_ScheduleIndependence ==
  (mpc = "returned" /\ exit = "normal" /\ ~terminate)
     => /\ BagToSet(table) = succ
        /\ BagCardinality(table) = Cardinality(succ)
        /\ saved_rows = table

C6_Witness ==
  /\ mpc = "returned" /\ exit = "normal" /\ ~terminate
  /\ names = <<2, 1>> /\ succ = {2} /\ n_proc = 2

\* C7 (as claimed): no row is appended to the summary table after the
\* cancellation flag is set.
C7_NoRowAfterFlag == late = 0

\* C7 (amended): after the cancellation flag is set at most one more row is
\* appended (the result returned by the get the collector was already in),
\* and no row is ever removed from the table.
C7_AtMostOneRowAfterFlag ==
  /\ [](late <= 1)
  /\ [][terminate => table \sqsubseteq table']_vars

C7_Witness == terminate /\ late = 1 /\ cpc = "done"

\* C8: a missing PSF makes fit_file return without starting the feeder, the
\* collector or any worker, without touching the queues, the output archive
\* or the saved summary, and with terminate unset; fit_dir then goes on to
\* the next file (it only finishes after a skip if the file was the last).
C8_MissingPsfSkipsFile ==
  /\ (exit = "skipped" /\ mpc \in {"returned", "dir", "finished"})
       => /\ fpc = "idle" /\ cpc = "idle" /\ \A w \in Procs : wpc[w] = "idle"
          /\ submitted = 0 /\ stops = 0 /\ pushed = 0
          /\ input_queue = <<>> /\ output_queue = <<>>
          /\ archive = {} /\ saved = 0
          /\ ~terminate
          /\ convolved # file
  /\ (exit = "skipped" /\ mpc = "finished") => file = NFiles

\* file 1 was skipped (it left no sentinel unacknowledged) and the job of
\* file 2 is being started
C8_Witness ==
  file = 2 /\ mpc = "start_feed" /\ convolved = 2 /\ in_unfinished = 0

\* C9: the file index only advances by one at a time, terminate is never
\* cleared, and once terminate is set no further file is started.
C9_CancellationHaltsRun ==
  [][/\ file' \in {file, file + 1}
     /\ terminate => terminate'
     /\ terminate => (file' = file /\ (mpc' = "convolve" => mpc = "convolve"))]_vars

C9_Witness == terminate /\ mpc = "finished" /\ file = 1 /\ exit = "normal"

\* C10: whenever fit_file has returned (normally, skipped or aborted), the
\* feeder thread, the collector thread and every worker process of the job
\* have terminated.
C10_ResourceRelease == mpc = "returned" => NoneAlive

\* C11: in a run without interrupt and without worker crash, every started
\* job ends: the feeder has submitted all N items and n_proc sentinels,
\* every worker has taken one sentinel and left, the collector has left
\* after N results, and fit_file has returned after table.save.
NormalDone ==
  /\ mpc = "returned" /\ exit = "normal" /\ saved = 1
  /\ fpc = "done" /\ submitted = Len(names) /\ stops = n_proc
  /\ \A w \in Workers : wpc[w] = "stopped"
  /\ input_queue = <<>>
  /\ cpc = "done" /\ completed = Len(names)

C11_NormalRunTermination ==
  (mpc = "start_feed") ~> (NormalDone \/ terminate \/ Crashed)

C11_Witness == NormalDone /\ n_proc = 2 /\ Len(names) = 2 /\ ~terminate

\* C12: the feeder puts sentinels only after every work item has been put
\* and only if terminate was unset when it tested it after the submission
\* loop; it then puts n_proc of them, so a feeder that has ended has put 0
\* or n_proc; a worker only takes a sentinel when every item has been
\* submitted and no work item is left in the input queue.
C12_SentinelProtocol ==
  /\ [](/\ stops > 0 => submitted = Len(names)
        /\ stops <= n_proc
        /\ fpc = "done" => stops \in {0, n_proc})
  /\ [][/\ (fpc = "check2" /\ fpc' # "check2")
             => IF terminate THEN fpc' = "done" /\ stops' = 0
                             ELSE fpc' = "stop"
        /\ (stops' # stops /\ file' = file)
             => (fpc = "stop" /\ stops' = stops + 1)
        /\ \A w \in Procs :
             (wpc[w] = "get" /\ wpc'[w] = "stopped")
                => /\ submitted = Len(names)
                   /\ \A i \in 1..Len(input_queue) : input_queue[i] = STOP
       ]_vars

C12_Witness ==
  /\ fpc = "done" /\ stops = 2 /\ n_proc = 2 /\ Len(names) = 2
  /\ wpc[1] = "stopped" /\ wpc[2] = "stopped"

\* number of entries of the queue q that lie in the set S
Count(q, S) == Cardinality({i \in 1..Len(q) : q[i] \in S})

\* C13: every submitted work item is in the input queue or held by a worker
\* at most once (so at most one worker dequeues it), its result is on the
\* output queue or in the table at most once, and
\* acknowledged <= pushed <= dequeued <= submitted, consumed <= pushed.
C13_OneWorkerOneResult ==
  /\ acked <= pushed /\ pushed <= dequeued /\ dequeued <= submitted
  /\ completed <= pushed
  /\ \A x \in 1..MaxItems :
       /\ Count(input_queue, {x})
            + Cardinality({w \in Procs : witem[w] = x}) <= 1
       /\ Count(output_queue,
                {[name |-> x, success |-> b] : b \in BOOLEAN})
            + CopiesIn(x, table) <= 1

C13_Witness == wpc[1] = "fit" /\ wpc[2] = "ack" /\ witem[1] # witem[2]

\* C14: a put that times out on the full input queue leaves submitted
\* unchanged; the work items put so far are exactly the first submitted
\* names, in order (none skipped, none twice); absent cancellation a feeder
\* past its submission loop has put every name; the input queue never
\* holds more than max_size entries.
C14_BackpressureNeverDrops ==
  /\ [](/\ fed = SubSeq(names, 1, submitted)
        /\ Len(input_queue) <= max_size
        /\ (fpc \in {"stop", "done"} /\ ~terminate) => fed = names)
  /\ [][(fpc = "put" /\ fpc' = "check" /\ input_queue' = input_queue)
          => (Len(input_queue) = max_size /\ submitted' = submitted)]_vars

C14_Witness ==
  /\ fpc = "put" /\ Len(input_queue) = max_size /\ submitted = 1
  /\ Len(names) = 2 /\ wpc[1] = "get" /\ ~terminate

\* C15: while the convolution of a file is running nothing of its job has
\* been started; the feeder, the collector and the workers of a file only
\* exist (and a worker only fits) once every model image has been convolved
\* with that file's PSF and convolved_models has been published for it; the
\* cube is only published when all images are done.
C15_ConvolutionBarrier ==
  /\ [](/\ mpc = "convolve"
             => /\ fpc = "idle" /\ cpc = "idle"
                /\ \A w \in Procs : wpc[w] = "idle"
                /\ convolved # file
        /\ (fpc # "idle" \/ cpc # "idle" \/ \E w \in Procs : wpc[w] # "idle")
             => (slices_done = NSlices /\ convolved = file))
  /\ [][convolved' # convolved
          => (slices_done = NSlices /\ convolved' = file)]_vars

C15_Witness ==
  file = 2 /\ normal_done = 1 /\ convolved = 2 /\ wpc[1] = "fit"

\* C16: stop_processes joins the feeder thread, then the worker processes
\* in order, then the collector thread; table.save runs at most once per
\* file, only when feeder, workers and collector have ended, and the table
\* is not changed after it has been saved.
C16_DrainBeforePersist ==
  /\ saved <= 1
  /\ mpc = "join_proc" => (~FeederAlive /\ \A w \in 1..(k - 1) : ~Alive(w))
  /\ mpc = "join_out" => (~FeederAlive /\ \A w \in Procs : ~Alive(w))
  /\ mpc = "save" => NoneAlive
  /\ saved = 1 => (NoneAlive /\ saved_rows = table)

C16_Witness == saved = 1 /\ BagCardinality(saved_rows) = 2 /\ n_proc = 2

\* C17: a worker that is interrupted (while waiting in get, while fitting,
\* or between put and task_done) sets terminate and leaves; the step puts
\* nothing on the output queue, takes nothing from the input queue and
\* acknowledges nothing, and the worker takes no step afterwards.
C17_WorkerInterrupt ==
  /\ []((\E w \in Procs : wpc[w] = "interrupted") => terminate)
  /\ [][\A w \in Procs :
          /\ (wpc[w] # "interrupted" /\ wpc'[w] = "interrupted")
               => /\ wpc[w] \in {"get", "fit", "ack"}
                  /\ terminate'
                  /\ input_queue' = input_queue
                  /\ output_queue' = output_queue
                  /\ pushed' = pushed /\ dequeued' = dequeued
                  /\ acked' = acked /\ in_unfinished' = in_unfinished
          /\ wpc[w] = "interrupted"
               => (wpc'[w] = "interrupted" /\ witem'[w] = witem[w])]_vars

C17_Witness ==
  /\ n_proc = 1 /\ wpc[1] = "interrupted" /\ dequeued = 1 /\ pushed = 0
  /\ output_queue = <<>> /\ fpc = "done" /\ cpc = "done"

\* C18: when one of several worker processes dies on an unexpected error
\* (after taking an item, without a result and without setting terminate),
\* and the other worker survives, the per-file job still ends: fit_file
\* returns or the run is cancelled, instead of waiting forever for the
\* missing result.
C18_CrashContainment ==
  (n_proc = 2 /\ Crashed /\ ~terminate)
     ~> \/ terminate
        \/ mpc \in {"returned", "finished", "killed"}
        \/ \A w \in Workers : wpc[w] = "crashed"

\* C19: the queues and the flag made in __init__ serve every file of the
\* run; when fit_file reaches start_processes both queues are empty and
\* terminate is clear, so nothing queued for an earlier file (completed or
\* skipped; a cancelled file ends the run) is left for the new threads.
C19_CleanQueuesBetweenFiles ==
  mpc \in {"convolve", "start_feed"}
     => (input_queue = <<>> /\ output_queue = <<>> /\ ~terminate)

C19_Witness ==
  /\ file = 2 /\ mpc = "start_feed" /\ normal_done = 1
  /\ n_proc = 2 /\ in_unfinished = 2 /\ Len(names) = 2

\* C20: a worker that takes a 'STOP' leaves without task_done for it; after
\* every file that completes normally the input queue's count of entries
\* put but not acknowledged has grown by n_proc, so it is n_proc times the
\* number of files completed so far and never returns to zero.
C20_SentinelsNeverAcknowledged ==
  /\ []((mpc = "returned" /\ exit = "normal" /\ ~terminate)
          => (normal_done >= 1 /\ in_unfinished = n_proc * normal_done))
  /\ [][\A w \in Procs :
          (wpc[w] = "get" /\ wpc'[w] = "stopped")
             => (Head(input_queue) = STOP /\ in_unfinished' = in_unfinished
                 /\ acked' = acked)]_vars

C20_Witness ==
  /\ mpc = "returned" /\ exit = "normal" /\ ~terminate
  /\ normal_done = 2 /\ n_proc = 2 /\ in_unfinished = 4
  /\ completed = 2 /\ acked = 2
====
